---- MODULE Spec2Model ----
(***************************************************************************)
(* A model of the crypto alert bots of this repository.                    *)
(*                                                                         *)
(*   main.py  : the monolithic bot (TIMEFRAME_CONFIG, analyze,             *)
(*              scan_symbols, main_loop, alert_tracker, symbol_volumes).   *)
(*   logic.py : the split bot (main_loop with highs_tracker, alert_flags)  *)
(*              with utils.py and alerts.py.                               *)
(*                                                                         *)
(* Number representations                                                  *)
(*   rsi, stoch_k, stoch_d inputs : thousandths (70004 is 70.004)          *)
(*   the same values in `data`    : hundredths, after round(x, 2)          *)
(*   macd_line, macd_signal input : units of 1e-5; in `data` units of 1e-4 *)
(*   confidence, tp_conf, momentum_score in `data` : hundredths of percent *)
(*   take-profit raw score        : tenths of a point (weights * 10)       *)
(*   vol_z : tenths of (last - mean) / std of the volume window            *)
(*   the clock `now`              : minutes                                *)
(***************************************************************************)
EXTENDS Integers, Sequences, FiniteSets, TLC

VARIABLES
    prog,            \* which program runs: "main" (main.py), "logic" (logic.py), "score"
    pc,              \* position of the scheduler loop: "scan", "sleep"
    idx,             \* index in the scan list of the next pair to process
    cycle,           \* number of completed scan cycles
    now,             \* the wall clock, in minutes
    alert_tracker,   \* main.py: key -> time of the last alert
    symbol_volumes,  \* main.py: symbol -> 24h quote volume
    loop_counter,    \* main.py main_loop: scans since the last volume refresh
    highs_tracker,   \* logic.py: key -> highest price seen
    alert_flags,     \* logic.py: key -> last alert state
    last,            \* history: what the last step did (pair, fetch, signals)
    sent,            \* history: the alerts the last step sent
    run_alerts,      \* history: key -> time of the last alert sent in this process run
    ever_alerts,     \* history: key -> time of the last alert sent, across restarts
    n_alerts,        \* history: number of alerts sent so far
    held,            \* history: logic.py keys whose condition held at every evaluation
                     \* since their last alert, across restarts
    failed,          \* history: whether the processing of some pair has failed
    case_tf,         \* scoring cases: the timeframe analysed
    case_ind,        \* scoring cases: the indicator snapshot analysed
    case_data,       \* scoring cases: the result of the analysis
    http             \* history: the last HTTP request handled and its response

vars == <<prog, pc, idx, cycle, now, alert_tracker, symbol_volumes, loop_counter,
          highs_tracker, alert_flags, last, sent, run_alerts, ever_alerts,
          n_alerts, held, failed, case_tf, case_ind, case_data, http>>

schedVars == <<pc, idx, cycle, now, alert_tracker, symbol_volumes, loop_counter,
               highs_tracker, alert_flags, last, sent, run_alerts, ever_alerts,
               n_alerts, held, failed>>

caseVars == <<case_tf, case_ind, case_data>>

-----------------------------------------------------------------------------
(* Python helpers *)

EmptyDict == [k \in {} |-> 0]

\* dict.get(key, default)
Get(d, key, default) == IF key \in DOMAIN d THEN d[key] ELSE default

\* d[key] = value
Put(d, key, value) == (key :> value) @@ d

SumOver(d, keys) ==
    LET sum[S \in SUBSET keys] ==
            IF S = {} THEN 0
            ELSE LET k == CHOOSE x \in S : TRUE
                 IN  d[k] + sum[S \ {k}]
    IN  sum[keys]

\* sum(d.values())
SumValues(d) == SumOver(d, DOMAIN d)

Min(a, b) == IF a < b THEN a ELSE b
Max(a, b) == IF a > b THEN a ELSE b

\* round(n / d) for d > 0, ties to even as Python's round
RoundDiv(n, d) ==
    LET q == n \div d
        r == n % d
    IN  IF 2 * r < d THEN q
        ELSE IF 2 * r > d THEN q + 1
        ELSE IF q % 2 = 0 THEN q ELSE q + 1

\* int(w * pct / 100) for w >= 0
IntPct(w, pct) == (w * pct) \div 100

-----------------------------------------------------------------------------
(* main.py: configuration *)

pairs == <<"SOLUSDT", "XRPUSDT", "ADAUSDT", "SUIUSDT", "APTUSDT", "GALAUSDT",
           "TRXUSDT", "GRTUSDT", "SAHARAUSDT", "NEWTUSDT", "ZILUSDT">>

\* the key order of TIMEFRAME_CONFIG and of scan_symbols' intervals
Timeframes == <<"15m", "30m", "4h", "1d">>

Config15m ==
    [htf |-> "1h", volume_window |-> 8, cooldown |-> 15,
     confidence_weights |->
         [htf_trend |-> 10, trend |-> 8, volume |-> 14, macd_hist |-> 14,
          stoch_crossover |-> 10, ema50 |-> 6, divergence |-> 8],
     tp_weights |->
         [rsi_overbought |-> 18, stoch_overbought |-> 16, bb_hit |-> 15,
          macd_cross |-> 12, vol_weak |-> 14, rsi_div |-> 10,
          stoch_cross |-> 9, rejection_wick |-> 10, htf_bear |-> 6],
     entry_threshold |-> 54, tp_threshold |-> 55, tsl |-> 6]

Config30m ==
    [htf |-> "4h", volume_window |-> 12, cooldown |-> 30,
     confidence_weights |->
         [htf_trend |-> 16, trend |-> 10, volume |-> 15, macd_hist |-> 16,
          stoch_crossover |-> 11, ema50 |-> 9, divergence |-> 13],
     tp_weights |->
         [rsi_overbought |-> 20, stoch_overbought |-> 15, bb_hit |-> 18,
          macd_cross |-> 13, vol_weak |-> 12, rsi_div |-> 13,
          stoch_cross |-> 10, rejection_wick |-> 11, htf_bear |-> 7],
     momentum_weights |->
         [rsi_overbought |-> 20, stoch_overbought |-> 20, macd_bearish |-> 25,
          rejection_wick |-> 20, volume_weak |-> 15],
     momentum_threshold |-> 60,
     entry_threshold |-> 58, tp_threshold |-> 61, tsl |-> 8]

Config4h ==
    [htf |-> "1d", volume_window |-> 20, cooldown |-> 60,
     confidence_weights |->
         [htf_trend |-> 28, trend |-> 16, volume |-> 12, macd_hist |-> 14,
          stoch_crossover |-> 9, ema50 |-> 11, divergence |-> 20],
     tp_weights |->
         [rsi_overbought |-> 25, stoch_overbought |-> 20, bb_hit |-> 15,
          macd_cross |-> 14, vol_weak |-> 11, rsi_div |-> 15,
          stoch_cross |-> 10, rejection_wick |-> 10, htf_bear |-> 10],
     momentum_weights |->
         [rsi_overbought |-> 25, stoch_overbought |-> 20, macd_bearish |-> 25,
          rejection_wick |-> 15, volume_weak |-> 15],
     momentum_threshold |-> 65,
     entry_threshold |-> 64, tp_threshold |-> 68, tsl |-> 18]

Config1d ==
    [htf |-> "1w", volume_window |-> 30, cooldown |-> 180,
     confidence_weights |->
         [htf_trend |-> 30, trend |-> 20, volume |-> 10, macd_hist |-> 15,
          stoch_crossover |-> 5, ema50 |-> 15, divergence |-> 20],
     tp_weights |->
         [rsi_overbought |-> 30, stoch_overbought |-> 15, bb_hit |-> 20,
          macd_cross |-> 10, vol_weak |-> 5, rsi_div |-> 20,
          stoch_cross |-> 10, rejection_wick |-> 10, htf_bear |-> 10],
     momentum_weights |->
         [rsi_overbought |-> 30, stoch_overbought |-> 15, macd_bearish |-> 25,
          rejection_wick |-> 15, volume_weak |-> 15],
     momentum_threshold |-> 70,
     entry_threshold |-> 65, tp_threshold |-> 70, tsl |-> 30]

TIMEFRAME_CONFIG ==
    ("15m" :> Config15m) @@ ("30m" :> Config30m) @@ ("4h" :> Config4h) @@ ("1d" :> Config1d)

get_max_confidence_score(interval) ==
    SumValues(TIMEFRAME_CONFIG[interval].confidence_weights)

\* analyze: if df.empty or len(df) < 220: return None
MinCandles == 220

-----------------------------------------------------------------------------
(* main.py: the scoring engine, analyze() *)

\* the result of analyze() when it returns None
NoData == [ok |-> FALSE]

\* round(x, 2) of a value in thousandths, in hundredths
Round2(x) == RoundDiv(x, 10)

\* round(x, 4) of a value in units of 1e-5, in units of 1e-4
Round4(x) == RoundDiv(x, 10)

\* round((score / max) * 100, 2), in hundredths of percent
Normalize(score, max) == RoundDiv(score * 10000, max)

\* mutant: the upper clamp is forgotten
ClampLowerOnly(x, lo, hi) == Max(lo, x)

\* max(lo, min(x, hi))
Clamp(x, lo, hi) == Max(lo, Min(x, hi))

volume_spike(ind, symbol, interval, volumes) ==
    IF symbol \notin DOMAIN volumes THEN FALSE
    ELSE LET vol_24h == volumes[symbol]
             mult == IF vol_24h > 100000000 THEN 20
                     ELSE IF vol_24h > 50000000 THEN 17
                     ELSE IF vol_24h < 3000000 THEN 11
                     ELSE 14
         IN  ind.vol_z > mult

\* stoch[-2] < signal[-2] and stoch[-1] > signal[-1]
stoch_crossover(ind) == ind.stoch_prev = "lt" /\ ind.stoch_k > ind.stoch_d

\* stoch[-2] > signal[-2] and stoch[-1] < signal[-1]
stoch_bear_crossover(ind) == ind.stoch_prev = "gt" /\ ind.stoch_k < ind.stoch_d

\* macd_diff[-2] < 0 and macd_diff[-1] > 0
macd_hist_positive(ind) == ind.macd_prev_neg /\ ind.macd_line - ind.macd_signal > 0

\* 40 < rsi < 60
rsi_neutral(ind) == 40000 < ind.rsi /\ ind.rsi < 60000

\* the conditions analyze() derives from the candles
Conditions(ind, symbol, interval, volumes) ==
    [htf_trend |-> ind.htf_trend,
     trend |-> ind.trend,
     volume_spike |-> volume_spike(ind, symbol, interval, volumes),
     macd_hist_positive |-> macd_hist_positive(ind),
     stoch_crossover |-> stoch_crossover(ind),
     ema_above |-> ind.price > ind.ema_50,
     divergence |-> ind.divergence,
     suppressed |-> ind.suppressed,
     tight_range |-> ind.tight_range,
     rsi_neutral |-> rsi_neutral(ind)]

\* mutant: the core signals are not counted
core_true_ungated(c) == 5

\* sum(bool(x) for x in core_signals)
core_true(c) ==
    Cardinality({n \in {"htf_trend", "trend", "volume_spike", "macd_hist_positive",
                        "stoch_crossover"} : c[n]})

\* mutant: a false condition earns nothing
CreditNothing(weights, name, cond) == IF cond THEN Get(weights, name, 0) ELSE 0

\* weights.get(name, 0) if cond else int(weights.get(name, 0) * 0.1)
Credit(weights, name, cond) ==
    IF cond THEN Get(weights, name, 0) ELSE IntPct(Get(weights, name, 0), 10)

\* the raw entry score before it is clamped
raw_confidence(interval, c) ==
    LET weights == TIMEFRAME_CONFIG[interval].confidence_weights
        max_score == get_max_confidence_score(interval)
    IN  IF core_true(c) < 2 THEN 0
        ELSE Credit(weights, "htf_trend", c.htf_trend)
           + Credit(weights, "trend", c.trend)
           + Credit(weights, "volume", c.volume_spike)
           + Credit(weights, "macd_hist", c.macd_hist_positive)
           + Credit(weights, "stoch_crossover", c.stoch_crossover)
           + Credit(weights, "ema50", c.ema_above)
           + (IF c.divergence THEN Max(5, IntPct(max_score, 8)) ELSE 0)
           + (IF ~c.suppressed THEN IntPct(max_score, 7) ELSE 0 - IntPct(max_score, 7))
           - (IF c.tight_range THEN IntPct(max_score, 6) ELSE 0)
           - (IF c.rsi_neutral THEN IntPct(max_score, 5) ELSE 0)

\* confidence = max(0, min(confidence, get_max_confidence_score(interval)))
entry_score(interval, c) ==
    Clamp(raw_confidence(interval, c), 0, get_max_confidence_score(interval))

\* normalized_conf
normalized_conf(interval, c) ==
    Normalize(entry_score(interval, c), get_max_confidence_score(interval))

\* the take-profit score before it is clamped, in tenths of a point
raw_tp_confidence(interval, ind, c) ==
    LET w == TIMEFRAME_CONFIG[interval].tp_weights
        tp_max_score == SumValues(w)
        rsi == ind.rsi
        rsi_full == rsi # 0 /\ rsi > 70000
        rsi_half == rsi # 0 /\ ~(rsi > 70000) /\ rsi > 67000
        st_full == ind.stoch_k > 80000 /\ ind.stoch_d > 80000
        st_half == ~st_full /\ ind.stoch_k > 77000 /\ ind.stoch_d > 77000
        bb_full == ind.price >= ind.bb_upper
        bb_half == ~bb_full /\ ind.price * 1000 >= ind.bb_upper * 995
        macd_full == ind.macd_line < ind.macd_signal
        macd_half == ~macd_full /\ ind.macd_line * 100 < ind.macd_signal * 103
        vol_full == ~c.volume_spike
        vol_half == ~vol_full /\ ind.vol_z < 0
        bear == stoch_bear_crossover(ind)
        bear_half == ~bear /\ ind.stoch_k > 70000 /\ ind.stoch_k < ind.stoch_d
        tp_signals ==
            Cardinality({n \in {"rsi", "stoch", "bb", "macd", "vol", "div", "cross", "wick"} :
                CASE n = "rsi" -> rsi_full
                  [] n = "stoch" -> st_full
                  [] n = "bb" -> bb_full
                  [] n = "macd" -> macd_full
                  [] n = "vol" -> vol_full
                  [] n = "div" -> ind.bearish_rsi_div
                  [] n = "cross" -> bear
                  [] n = "wick" -> ind.rejection_wick})
        Part(name, full, half) ==
            IF full THEN Get(w, name, 0) * 10
            ELSE IF half THEN Get(w, name, 0) * 5
            ELSE 0
    IN  Part("rsi_overbought", rsi_full, rsi_half)
      + Part("stoch_overbought", st_full, st_half)
      + Part("bb_hit", bb_full, bb_half)
      + Part("macd_cross", macd_full, macd_half)
      + Part("vol_weak", vol_full, vol_half)
      + Part("rsi_div", ind.bearish_rsi_div, FALSE)
      + Part("stoch_cross", bear, bear_half)
      + Part("rejection_wick", ind.rejection_wick, FALSE)
      + (IF ~ind.htf_trend THEN Get(w, "htf_bear", 0) * 10
         ELSE 0 - Get(w, "htf_bear", 0) * 6)
      + (IF tp_signals >= 3 THEN Min(6, RoundDiv(tp_max_score * 4, 100)) * 10 ELSE 0)
      + (IF bb_full /\ rsi_full THEN Min(5, RoundDiv(rsi - 70000, 2000)) * 10 ELSE 0)

\* tp_confidence = max(0, min(tp_confidence, tp_max_score)), in tenths of a point
tp_score(interval, ind, c) ==
    Clamp(raw_tp_confidence(interval, ind, c), 0,
          SumValues(TIMEFRAME_CONFIG[interval].tp_weights) * 10)

\* tp_conf = round((tp_confidence / tp_max_score) * 100, 2)
tp_conf(interval, ind, c) ==
    RoundDiv(tp_score(interval, ind, c) * 1000,
             SumValues(TIMEFRAME_CONFIG[interval].tp_weights))

\* config.get("momentum_weights", {})
momentum_weights(interval) ==
    Get(TIMEFRAME_CONFIG[interval], "momentum_weights", EmptyDict)

momentum_score(interval, ind, c) ==
    LET mw == momentum_weights(interval)
    IN  (IF ind.rsi # 0 /\ ind.rsi > 70000 THEN Get(mw, "rsi_overbought", 0) ELSE 0)
      + (IF ind.stoch_k > 80000 /\ ind.stoch_d > 80000
         THEN Get(mw, "stoch_overbought", 0) ELSE 0)
      + (IF ind.macd_line < ind.macd_signal THEN Get(mw, "macd_bearish", 0) ELSE 0)
      + (IF ind.rejection_wick THEN Get(mw, "rejection_wick", 0) ELSE 0)
      + (IF ~c.volume_spike THEN Get(mw, "volume_weak", 0) ELSE 0)

momentum_score_pct(interval, ind, c) ==
    LET momentum_max_score == SumValues(momentum_weights(interval))
    IN  IF momentum_max_score > 0
        THEN Normalize(momentum_score(interval, ind, c), momentum_max_score)
        ELSE 0

\* mutant: the entry threshold is not consulted
entry_signal_ungated(interval, conf) == TRUE

\* 'entry': normalized_conf >= config.get("entry_threshold", 50)
entry_signal(interval, conf) ==
    conf >= Get(TIMEFRAME_CONFIG[interval], "entry_threshold", 50) * 100

\* tp = tp_conf >= config["tp_threshold"]
tp_signal(interval, conf) ==
    conf >= TIMEFRAME_CONFIG[interval].tp_threshold * 100

\* 'momentum_warning': momentum_score_pct >= config.get("momentum_threshold", 50)
momentum_warning_signal(interval, pct) ==
    pct >= Get(TIMEFRAME_CONFIG[interval], "momentum_threshold", 50) * 100

\* mutant: the row check is skipped
too_few_candles_skipped(rows) == FALSE

\* df.empty or len(df) < 220
too_few_candles(rows) == rows = 0 \/ rows < MinCandles

\* lines 718-754: the dict analyze() returns
analysis(symbol, interval, ind, c, conf, tpc, mpct) ==
    [ok |-> TRUE,
     symbol |-> symbol,
     interval |-> interval,
     confidence |-> conf,
     rsi |-> Round2(ind.rsi),
     stoch_k |-> Round2(ind.stoch_k),
     stoch_d |-> Round2(ind.stoch_d),
     macd_line |-> Round4(ind.macd_line),
     macd_signal |-> Round4(ind.macd_signal),
     volume_spike |-> c.volume_spike,
     volume_weakening |-> ~c.volume_spike,
     rejection_wick |-> ind.rejection_wick,
     entry |-> entry_signal(interval, conf),
     tp |-> tp_signal(interval, tpc),
     tp_conf |-> tpc,
     momentum_score |-> mpct,
     momentum_warning |-> momentum_warning_signal(interval, mpct)]

\* the conditions and the three scores are each computed once, as the locals of
\* analyze() are
analyze(symbol, interval, ind, volumes) ==
    IF too_few_candles(ind.rows) THEN NoData
    ELSE IF ind.error THEN NoData    \* rsi, macd are None: line 693 raises, caught at 756
    ELSE CHOOSE data \in UNION {
             {analysis(symbol, interval, ind, c, conf, tpc, mpct) :
                  conf \in {normalized_conf(interval, c)},
                  tpc \in {tp_conf(interval, ind, c)},
                  mpct \in {momentum_score_pct(interval, ind, c)}} :
             c \in {Conditions(ind, symbol, interval, volumes)}} : TRUE

-----------------------------------------------------------------------------
(* logic.py: configuration and the analysis inside main_loop *)

SYMBOLS == <<"BTCUSDT", "ETHUSDT", "SOLUSDT", "DOGEUSDT", "INJUSDT", "LINAUSDT">>

\* the key order of intervals = {"15m": 0.21, "1h": 0.25, "1d": 0.35}
LogicIntervals == <<"15m", "1h", "1d">>

\* tsl_percent of each interval, in percent
tsl_percent == ("15m" :> 21) @@ ("1h" :> 25) @@ ("1d" :> 35)

\* main_loop: if df.empty or len(df) < 20: continue
LogicMinCandles == 20

logic_too_few_candles(rows) == rows = 0 \/ rows < LogicMinCandles

\* lines 56-63
logic_confidence(ind) ==
    Min((IF ind.vol THEN 20 ELSE 0)
      + (IF ind.trend THEN 20 ELSE 0)
      + (IF ~ind.suppressed THEN 15 ELSE 0)
      + (IF ind.div THEN 15 ELSE 0)
      + (IF ind.rsi < 30000 THEN 15 ELSE 0)
      + (IF ind.stoch_k < 20000 /\ ind.stoch_d < 20000 THEN 15 ELSE 0), 100)

\* lines 24-50 and 56-73: the data of one pair, or no data when the pair is skipped
\* (too few candles) or an indicator raises; prices are integers, tsl_level is kept
\* times 100
logic_analyze(symbol, interval, ind, highs) ==
    LET key == symbol \o "_" \o interval
        prev_high == Get(highs, key, ind.price)
        new_high == Max(prev_high, ind.price)
        tsl_trigger100 == new_high * (100 - tsl_percent[interval])
        confidence == logic_confidence(ind)
    IN  IF logic_too_few_candles(ind.rows) \/ ind.error THEN NoData ELSE
        [ok |-> TRUE,
         symbol |-> symbol,
         interval |-> interval,
         price |-> ind.price,
         confidence |-> confidence,
         entry |-> confidence >= 70,
         tp |-> ind.price >= ind.upper /\ ind.stoch_k > 80000 /\ ind.stoch_d > 80000,
         tsl_hit |-> ind.price * 100 < tsl_trigger100,
         bb_lower |-> ind.lower,
         prev_high |-> prev_high,
         highest |-> new_high,
         tsl_level100 |-> tsl_trigger100]

-----------------------------------------------------------------------------
(* Indicator snapshots: what one fetch of candles yields for analyze() *)

RsiValues == {0, 50000, 66000, 67500, 69000, 70004, 85000}

\* <<stoch_k, stoch_d>>
StochPairs == {<<50000, 40000>>, <<40000, 50000>>, <<78000, 79000>>, <<79000, 78000>>,
               <<80004, 90000>>, <<90000, 85000>>, <<85000, 90000>>}

\* <<macd_line, macd_signal>>
MacdPairs == {<<0 - 50, 30>>, <<1, 2>>, <<101, 100>>, <<200, 100>>}

\* price is 10000: at or above the upper band, within 0.5% of it, below it
BbUpperValues == {9900, 10040, 11000}

Ema50Values == {9000, 10500}

BaseInd ==
    [rows |-> MinCandles, error |-> FALSE,
     rsi |-> 50000, stoch_k |-> 50000, stoch_d |-> 40000, stoch_prev |-> "gt",
     macd_line |-> 200, macd_signal |-> 100, macd_prev_neg |-> FALSE,
     price |-> 10000, bb_upper |-> 11000, ema_50 |-> 10500,
     trend |-> FALSE, htf_trend |-> FALSE, suppressed |-> FALSE, divergence |-> FALSE,
     tight_range |-> FALSE, bearish_rsi_div |-> FALSE, rejection_wick |-> FALSE,
     vol_z |-> 12]

\* every combination of the conditions the entry score reads
EntryCases ==
    {[BaseInd EXCEPT !.htf_trend = b[1], !.trend = b[2], !.divergence = b[3],
                     !.suppressed = b[4], !.tight_range = b[5],
                     !.macd_prev_neg = b[6],
                     !.stoch_prev = IF b[7] THEN "lt" ELSE "gt",
                     !.ema_50 = e, !.vol_z = z, !.rsi = r] :
        b \in [1..7 -> BOOLEAN], e \in Ema50Values, z \in {12, 25}, r \in {50000, 85000}}

\* every combination of the values the take-profit and momentum scores read
TpCases ==
    {[BaseInd EXCEPT !.rsi = r, !.stoch_k = st[1], !.stoch_d = st[2],
                     !.stoch_prev = IF b[1] THEN "lt" ELSE "gt",
                     !.macd_line = m[1], !.macd_signal = m[2],
                     !.bb_upper = u, !.vol_z = 25,
                     !.bearish_rsi_div = b[2], !.rejection_wick = b[3],
                     !.htf_trend = b[4]] :
        r \in RsiValues, st \in StochPairs, m \in MacdPairs, u \in BbUpperValues,
        b \in [1..4 -> BOOLEAN]}

\* a fetch that fails or is too short, and an indicator computation that raises
FailedCases ==
    {[BaseInd EXCEPT !.rows = n] : n \in {0, MinCandles - 1}}
    \cup {[BaseInd EXCEPT !.error = TRUE]}

\* snapshots for logic.py: prices are 100, the bands 90 and 110
LogicBaseInd ==
    [rows |-> LogicMinCandles, error |-> FALSE,
     rsi |-> 50000, stoch_k |-> 50000, stoch_d |-> 40000,
     price |-> 100, upper |-> 110, lower |-> 90,
     vol |-> FALSE, trend |-> FALSE, suppressed |-> TRUE, div |-> FALSE]

LogicStochPairs == {<<10000, 15000>>, <<10000, 50000>>, <<50000, 40000>>, <<90000, 85000>>}

\* every combination of the conditions logic.py scores
LogicCases ==
    {[LogicBaseInd EXCEPT !.vol = b[1], !.trend = b[2], !.suppressed = b[3],
                          !.div = b[4], !.rsi = r,
                          !.stoch_k = st[1], !.stoch_d = st[2], !.upper = u] :
        b \in [1..4 -> BOOLEAN], r \in {25000, 50000}, st \in LogicStochPairs,
        u \in {95, 110}}

\* 24h quote volumes: below 3,000,000 (mult 1.1) and above 100,000,000 (mult 2.0)
Volume24hValues == {2000000, 150000000}

\* what fetch_24h_volumes() can leave in symbol_volumes: {} after an exception (or
\* when the ticker lists none of the pairs), else a volume per listed symbol
VolumeSnapshots(symbols) ==
    {EmptyDict} \cup [symbols -> Volume24hValues]

-----------------------------------------------------------------------------
(* Scoring cases: analyze() applied to one snapshot *)

InitSched ==
    /\ idx = 1 /\ cycle = 0 /\ now = 0
    /\ alert_tracker = EmptyDict /\ loop_counter = 0
    /\ highs_tracker = EmptyDict /\ alert_flags = EmptyDict
    /\ last = [kind |-> "init"] /\ sent = {}
    /\ run_alerts = EmptyDict /\ ever_alerts = EmptyDict
    /\ n_alerts = 0 /\ held = {} /\ failed = FALSE
    /\ http = [route |-> "none"]

NoCase == [rows |-> 0 - 1]

InitScore ==
    /\ prog = "score"
    /\ case_tf \in {"15m", "30m", "4h", "1d", "1h"}
    /\ case_ind = NoCase
    /\ case_data = NoData
    /\ pc = "case"
    /\ InitSched
    /\ symbol_volumes \in VolumeSnapshots({pairs[1]})

AnalyzeCase(cases) ==
    /\ prog = "score"
    /\ case_ind = NoCase
    /\ case_tf \in DOMAIN TIMEFRAME_CONFIG
    /\ \E ind \in cases :
         /\ case_ind' = ind
         /\ case_data' = analyze(pairs[1], case_tf, ind, symbol_volumes)
    /\ UNCHANGED <<prog, case_tf, schedVars, http>>

AnalyzeEntryCase == AnalyzeCase(EntryCases)

AnalyzeTpCase == AnalyzeCase(TpCases)

AnalyzeFailedCase == AnalyzeCase(FailedCases)

\* logic.py's analysis of one snapshot, with no high recorded yet
AnalyzeLogicCase ==
    /\ prog = "score"
    /\ case_ind = NoCase
    /\ case_tf \in DOMAIN tsl_percent
    /\ symbol_volumes = EmptyDict
    /\ \E ind \in LogicCases :
         /\ case_ind' = ind
         /\ case_data' = logic_analyze(SYMBOLS[1], case_tf, ind, EmptyDict)
    /\ UNCHANGED <<prog, case_tf, schedVars, http>>

NextScore == AnalyzeEntryCase \/ AnalyzeTpCase \/ AnalyzeFailedCase \/ AnalyzeLogicCase

SpecScore == InitScore /\ [][NextScore]_vars

-----------------------------------------------------------------------------
(* Bounds of the scheduler model *)

\* pairs of the scan list that are scanned (the first ones, in the code's order)
MaxPairs == 2

\* scans started per run of the model, by the loop or by a restart of the process
MaxCycles == 2

\* alerts sent per run of the model
MaxAlerts == 2

\* scans per run of the model of the volume refresh: two refreshes and one scan more
MaxScans == 17

-----------------------------------------------------------------------------
(* main.py: alert_cooldown_passed, scan_symbols, main_loop *)

Kinds == {"entry", "tp", "momentum"}

\* for symbol in symbols: for interval in intervals
ScanList(symbols, intervals) ==
    [i \in 1..(Len(symbols) * Len(intervals)) |->
        <<symbols[((i - 1) \div Len(intervals)) + 1],
          intervals[((i - 1) % Len(intervals)) + 1]>>]

MainScan == SubSeq(ScanList(pairs, Timeframes), 1, MaxPairs)

\* mutant: the key leaves out the interval
AlertKeyNoInterval(symbol, interval, kind) == symbol \o "_" \o kind

\* key = f"{symbol}_{interval}_{kind}"
AlertKey(symbol, interval, kind) == symbol \o "_" \o interval \o "_" \o kind

\* mutant: an alert exactly one cooldown after the last one passes
cooldown_elapsed_or_equal(tracker, key, t, cooldown_minutes) ==
    key \notin DOMAIN tracker \/ (t - tracker[key]) >= cooldown_minutes

\* last is None or (now - last) > timedelta(minutes=cooldown_minutes)
cooldown_elapsed(tracker, key, t, cooldown_minutes) ==
    key \notin DOMAIN tracker \/ (t - tracker[key]) > cooldown_minutes

\* returns whether the alert may be sent, and the tracker it leaves
alert_cooldown_passed(symbol, interval, kind, cooldown_minutes, tracker, t) ==
    LET key == AlertKey(symbol, interval, kind)
    IN  IF cooldown_elapsed(tracker, key, t, cooldown_minutes)
        THEN [passed |-> TRUE, tracker |-> Put(tracker, key, t)]
        ELSE [passed |-> FALSE, tracker |-> tracker]

\* the momentum_warning computed inside scan_symbols, from the rounded values
scan_momentum_warning(data) ==
    \/ (data.rsi > 7000 /\ data.stoch_k > 8000 /\ data.stoch_d > 8000)
    \/ (data.macd_line < data.macd_signal /\ data.rsi > 6500)
    \/ (data.rejection_wick /\ data.rsi > 6800)
    \/ (~data.volume_spike /\ data.rsi > 7000)

\* the condition scan_symbols tests before the cooldown, per kind of alert
scan_signal(data, kind) ==
    CASE kind = "entry" -> data.entry
      [] kind = "tp" -> data.tp
      [] kind = "momentum" -> scan_momentum_warning(data)

\* if <signal> and alert_cooldown_passed(symbol, tf, kind, cooldown): send
scan_alert(data, kind, cooldown, r, t) ==
    IF scan_signal(data, kind)
    THEN LET c == alert_cooldown_passed(data.symbol, data.interval, kind, cooldown,
                                        r.tracker, t)
         IN  [tracker |-> c.tracker,
              alerts |-> IF c.passed THEN r.alerts \cup {kind} ELSE r.alerts]
    ELSE r

\* the body of scan_symbols' loop for one pair: the tracker it leaves and the kinds
\* of alert it sends
scan_pair(data, tracker, t) ==
    IF ~data.ok THEN [tracker |-> tracker, alerts |-> {}]
    ELSE LET cooldown == TIMEFRAME_CONFIG[data.interval].cooldown
             r0 == [tracker |-> tracker, alerts |-> {}]
             r1 == scan_alert(data, "entry", cooldown, r0, t)
             r2 == scan_alert(data, "tp", cooldown, r1, t)
         IN  scan_alert(data, "momentum", cooldown, r2, t)

\* await asyncio.sleep(1800), in minutes
SleepMinutes == 30

\* if loop_counter >= 8: refresh the 24h volumes
RefreshEvery == 8

\* minutes one scan of all pairs may take, beyond the sleep
ScanMinutes == {0, 1}

\* what fetch_24h_volumes leaves in the scheduler model: nothing when the fetch
\* fails, else a high volume for every symbol scanned
ScanVolumes ==
    {EmptyDict} \cup [{MainScan[i][1] : i \in 1..Len(MainScan)} -> {150000000}]

\* what the ticker request of fetch_24h_volumes() does: it raises, or it answers
\* with a volume per listed pair
VolumeFetches ==
    {[raised |-> TRUE, volumes |-> EmptyDict]}
    \cup {[raised |-> FALSE, volumes |-> v] : v \in ScanVolumes \ {EmptyDict}}

\* mutant: the snapshot survives a failed fetch
fetch_24h_volumes_kept(fetch, previous) ==
    IF fetch.raised THEN previous ELSE fetch.volumes

\* the symbol_volumes fetch_24h_volumes() leaves: {} in the except branch
fetch_24h_volumes(fetch, previous) ==
    IF fetch.raised THEN EmptyDict ELSE fetch.volumes

\* the snapshots the scheduler model draws for a pair
Quiet == BaseInd

Bullish ==
    [BaseInd EXCEPT !.htf_trend = TRUE, !.trend = TRUE, !.macd_prev_neg = TRUE,
                    !.stoch_prev = "lt", !.ema_50 = 9000, !.vol_z = 25,
                    !.divergence = TRUE, !.rsi = 30000]

Overbought(ind) ==
    [ind EXCEPT !.rsi = 85000, !.stoch_k = 90000, !.stoch_d = 85000, !.bb_upper = 9900,
                !.bearish_rsi_div = TRUE, !.rejection_wick = TRUE]

Fading(ind, rsi) == [ind EXCEPT !.rsi = rsi]

Topping(ind) == [Overbought(ind) EXCEPT !.rsi = 62000]

ScanCases ==
    {[Quiet EXCEPT !.rows = 0], [Bullish EXCEPT !.rows = MinCandles - 1]}
    \cup {[BaseInd EXCEPT !.error = TRUE]}
    \cup {Quiet, Bullish, Overbought(Quiet), Topping(Bullish)}
    \cup {Fading(Quiet, 85000), Fading(Bullish, 85000)}

\* what the history records of an alert that main.py sends
MainAlert(data, kind, t, delivered) ==
    LET key == data.symbol \o "_" \o data.interval \o "_" \o kind
    IN  [kind |-> kind, key |-> key, interval |-> data.interval, at |-> t,
         prev |-> Get(run_alerts, key, 0 - 1),
         before |-> Get(ever_alerts, key, 0 - 1),
         confidence |-> data.confidence, tp_conf |-> data.tp_conf,
         momentum_score |-> data.momentum_score,
         momentum_warning |-> data.momentum_warning,
         delivered |-> delivered]

\* d with every key of keys set to t
Stamp(d, keys, t) == [k \in DOMAIN d \cup keys |-> IF k \in keys THEN t ELSE d[k]]

\* mutant: the loop body runs once, there is no `while True`
AfterPairOnce(i, n) == IF i < n THEN [pc |-> "scan", idx |-> i + 1]
                       ELSE [pc |-> "done", idx |-> 1]

\* the position after the pair at index i of a scan list of n pairs
AfterPair(i, n) == IF i < n THEN [pc |-> "scan", idx |-> i + 1]
                   ELSE [pc |-> "sleep", idx |-> 1]

\* main_loop up to the first scan: loop_counter = 0; fetch_24h_volumes()
main_loop_start ==
    /\ prog = "main" /\ pc = "start"
    /\ \E fetch \in VolumeFetches :
         /\ symbol_volumes' = fetch_24h_volumes(fetch, symbol_volumes)
         /\ last' = [kind |-> "start", refreshed |-> TRUE, raised |-> fetch.raised,
                     had_volumes |-> symbol_volumes # EmptyDict]
    /\ loop_counter' = 0
    /\ pc' = "scan" /\ idx' = 1
    /\ sent' = {}
    /\ UNCHANGED <<prog, cycle, now, alert_tracker, highs_tracker, alert_flags,
                   run_alerts, ever_alerts, n_alerts, held, failed, caseVars, http>>

\* one iteration of scan_symbols' loops: analyze the pair and send its alerts
scan_symbols_on(cases) ==
    /\ prog = "main" /\ pc = "scan"
    /\ \E ind \in cases :
       \E data \in {analyze(MainScan[idx][1], MainScan[idx][2], ind, symbol_volumes)} :
       \E r \in {scan_pair(data, alert_tracker, now)} :
       \E delivered \in (IF r.alerts = {} THEN {TRUE} ELSE BOOLEAN) :
       \E alerts \in {{MainAlert(data, k, now, delivered) : k \in r.alerts}} :
         LET next == AfterPair(idx, Len(MainScan))
         IN  /\ n_alerts + Cardinality(r.alerts) <= MaxAlerts
             /\ alert_tracker' = r.tracker
             /\ sent' = alerts
             /\ last' = [kind |-> "pair", idx |-> idx, symbol |-> MainScan[idx][1],
                         interval |-> MainScan[idx][2], rows |-> ind.rows,
                         error |-> ind.error, ok |-> data.ok,
                         signals |-> IF data.ok
                                     THEN {k \in Kinds : scan_signal(data, k)}
                                     ELSE {},
                         volume_spike |-> data.ok /\ data.volume_spike,
                         volume_weakening |-> data.ok /\ data.volume_weakening]
             /\ run_alerts' = Stamp(run_alerts, {a.key : a \in alerts}, now)
             /\ ever_alerts' = Stamp(ever_alerts, {a.key : a \in alerts}, now)
             /\ n_alerts' = n_alerts + Cardinality(r.alerts)
             /\ failed' = (failed \/ ~data.ok)
             /\ pc' = next.pc /\ idx' = next.idx
    /\ UNCHANGED <<prog, cycle, now, symbol_volumes, loop_counter, highs_tracker,
                   alert_flags, held, caseVars, http>>

scan_symbols == scan_symbols_on(ScanCases)

\* mutant: the refresh comes one scan late
refresh_due_late(counter) == counter > RefreshEvery

\* if loop_counter >= 8
refresh_due(counter) == counter >= RefreshEvery

\* main_loop after a scan: count it, refresh the volumes every 8th, sleep 30 minutes;
\* the model stops after max_cycles scans
main_loop_sleep_upto(max_cycles) ==
    /\ prog = "main" /\ pc = "sleep"
    /\ cycle + 1 < max_cycles
    /\ IF refresh_due(loop_counter + 1)
       THEN /\ \E fetch \in VolumeFetches :
                 /\ symbol_volumes' = fetch_24h_volumes(fetch, symbol_volumes)
                 /\ last' = [kind |-> "sleep", refreshed |-> TRUE,
                             raised |-> fetch.raised,
                             had_volumes |-> symbol_volumes # EmptyDict]
            /\ loop_counter' = 0
       ELSE /\ loop_counter' = loop_counter + 1
            /\ last' = [kind |-> "sleep", refreshed |-> FALSE, raised |-> FALSE,
                        had_volumes |-> symbol_volumes # EmptyDict]
            /\ UNCHANGED symbol_volumes
    /\ \E d \in ScanMinutes : now' = now + SleepMinutes + d
    /\ cycle' = cycle + 1
    /\ pc' = "scan" /\ idx' = 1
    /\ sent' = {}
    /\ UNCHANGED <<prog, alert_tracker, highs_tracker, alert_flags,
                   run_alerts, ever_alerts, n_alerts, held, failed, caseVars, http>>

main_loop_sleep == main_loop_sleep_upto(MaxCycles)

-----------------------------------------------------------------------------
(* logic.py: main_loop *)

LogicKinds == {"entry", "tp", "tsl"}

LogicScan == SubSeq(ScanList(SYMBOLS, LogicIntervals), 1, MaxPairs)

\* key = f"{symbol}_{interval}"
LogicKey(symbol, interval) == symbol \o "_" \o interval

\* alert_key + "_entry", alert_key + "_tp", alert_key + "_tsl"
LogicFlagKey(symbol, interval, kind) == LogicKey(symbol, interval) \o "_" \o kind

\* mutant: the high follows the price down
logic_highs_last(symbol, interval, ind, data, highs) ==
    IF ~data.ok THEN highs ELSE Put(highs, LogicKey(symbol, interval), ind.price)

\* lines 51-54: the high recorded for the pair
logic_highs(symbol, interval, ind, data, highs) ==
    LET key == LogicKey(symbol, interval)
    IN  IF ~data.ok THEN highs
        ELSE IF ind.vol /\ ind.trend /\ ~ind.suppressed
        THEN Put(highs, key, IF ind.price > data.prev_high THEN ind.price
                             ELSE data.prev_high)
        ELSE IF ~data.tsl_hit THEN Put(highs, key, data.highest)
        ELSE highs

logic_signal(data, kind) ==
    CASE kind = "entry" -> data.entry
      [] kind = "tp" -> data.tp
      [] kind = "tsl" -> data.tsl_hit

\* mutant: the alert is sent whenever the condition is true
logic_alert_level(data, kind, r) ==
    LET key == LogicFlagKey(data.symbol, data.interval, kind)
    IN  IF logic_signal(data, kind)
        THEN [flags |-> Put(r.flags, key, TRUE), alerts |-> r.alerts \cup {kind}]
        ELSE [flags |-> Put(r.flags, key, FALSE), alerts |-> r.alerts]

\* lines 78-83 (and 86-91, 94-99): send when the flag is not True, and set it;
\* clear it when the condition is false
logic_alert(data, kind, r) ==
    LET key == LogicFlagKey(data.symbol, data.interval, kind)
    IN  IF logic_signal(data, kind)
        THEN IF Get(r.flags, key, FALSE) # TRUE
             THEN [flags |-> Put(r.flags, key, TRUE), alerts |-> r.alerts \cup {kind}]
             ELSE r
        ELSE [flags |-> Put(r.flags, key, FALSE), alerts |-> r.alerts]

\* lines 75-99 for one pair: the flags it leaves and the kinds of alert it sends
logic_pair(data, flags) ==
    IF ~data.ok THEN [flags |-> flags, alerts |-> {}]
    ELSE LET r0 == [flags |-> flags, alerts |-> {}]
             r1 == logic_alert(data, "entry", r0)
             r2 == logic_alert(data, "tp", r1)
         IN  logic_alert(data, "tsl", r2)

\* await asyncio.sleep(600), in minutes
LogicSleepMinutes == 10

\* the snapshots the scheduler model draws for a pair of logic.py
LogicQuiet == LogicBaseInd

LogicStrong ==
    [LogicBaseInd EXCEPT !.vol = TRUE, !.trend = TRUE, !.suppressed = FALSE,
                         !.div = TRUE]

LogicTop == [LogicBaseInd EXCEPT !.stoch_k = 90000, !.stoch_d = 85000, !.upper = 95]

LogicScanCases ==
    {[LogicStrong EXCEPT !.rows = n] : n \in {0, LogicMinCandles - 1}}
    \cup {[LogicBaseInd EXCEPT !.error = TRUE]}
    \cup {LogicQuiet, LogicStrong, LogicTop}

\* what the history records of an alert that logic.py sends
LogicAlert(data, kind, t, delivered) ==
    LET key == data.symbol \o "_" \o data.interval \o "_" \o kind
    IN  [kind |-> kind, key |-> key, interval |-> data.interval, at |-> t,
         prev |-> Get(run_alerts, key, 0 - 1),
         before |-> Get(ever_alerts, key, 0 - 1),
         confidence |-> data.confidence,
         price |-> data.price, bb_lower |-> data.bb_lower,
         held |-> key \in held,
         delivered |-> delivered]

\* one iteration of main_loop's loops: analyse the pair, track its high, send its alerts
logic_main_loop_pair_on(cases) ==
    /\ prog = "logic" /\ pc = "scan"
    /\ \E ind \in cases :
       \E data \in {logic_analyze(LogicScan[idx][1], LogicScan[idx][2], ind,
                                  highs_tracker)} :
       \E r \in {logic_pair(data, alert_flags)} :
       \E delivered \in (IF r.alerts = {} THEN {TRUE} ELSE BOOLEAN) :
       \E alerts \in {{LogicAlert(data, k, now, delivered) : k \in r.alerts}} :
       \E signals \in {IF data.ok THEN {k \in LogicKinds : logic_signal(data, k)}
                       ELSE {}} :
         LET next == AfterPair(idx, Len(LogicScan))
             key == LogicKey(LogicScan[idx][1], LogicScan[idx][2])
         IN  /\ n_alerts + Cardinality(r.alerts) <= MaxAlerts
             /\ highs_tracker' = logic_highs(LogicScan[idx][1], LogicScan[idx][2],
                                             ind, data, highs_tracker)
             /\ alert_flags' = r.flags
             /\ sent' = alerts
             /\ last' = [kind |-> "pair", idx |-> idx, symbol |-> LogicScan[idx][1],
                         interval |-> LogicScan[idx][2], rows |-> ind.rows,
                         error |-> ind.error, ok |-> data.ok, signals |-> signals,
                         price |-> ind.price,
                         tsl_level100 |-> IF data.ok THEN data.tsl_level100 ELSE 0]
             /\ run_alerts' = Stamp(run_alerts, {a.key : a \in alerts}, now)
             /\ ever_alerts' = Stamp(ever_alerts, {a.key : a \in alerts}, now)
             /\ n_alerts' = n_alerts + Cardinality(r.alerts)
             /\ held' = IF data.ok
                        THEN (held \ {key \o "_" \o k : k \in LogicKinds \ signals})
                             \cup {a.key : a \in alerts}
                        ELSE held
             /\ failed' = (failed \/ ~data.ok)
             /\ pc' = next.pc /\ idx' = next.idx
    /\ UNCHANGED <<prog, cycle, now, alert_tracker, symbol_volumes, loop_counter,
                   caseVars, http>>

logic_main_loop_pair == logic_main_loop_pair_on(LogicScanCases)

\* main_loop after the pairs: sleep 10 minutes
logic_main_loop_sleep ==
    /\ prog = "logic" /\ pc = "sleep"
    /\ cycle + 1 < MaxCycles
    /\ now' = now + LogicSleepMinutes
    /\ cycle' = cycle + 1
    /\ pc' = "scan" /\ idx' = 1
    /\ last' = [kind |-> "sleep"] /\ sent' = {}
    /\ UNCHANGED <<prog, alert_tracker, symbol_volumes, loop_counter, highs_tracker,
                   alert_flags, run_alerts, ever_alerts, n_alerts, held, failed,
                   caseVars, http>>

-----------------------------------------------------------------------------
(* The HTTP endpoint: main.py's Flask app (lines 174-201) when main.py runs, and
   server.py's next to logic.py.  Header values and the text they are searched
   for are sequences of characters. *)

\* Python's None
None == "None"

Upper == <<"A", "B", "C", "D", "E", "F", "G", "H", "I", "J", "K", "L", "M",
           "N", "O", "P", "Q", "R", "S", "T", "U", "V", "W", "X", "Y", "Z">>
Lowercase == <<"a", "b", "c", "d", "e", "f", "g", "h", "i", "j", "k", "l", "m",
           "n", "o", "p", "q", "r", "s", "t", "u", "v", "w", "x", "y", "z">>

\* str.lower()
lower(str) ==
    [i \in 1..Len(str) |->
        IF \E j \in 1..26 : Upper[j] = str[i]
        THEN Lowercase[CHOOSE j \in 1..26 : Upper[j] = str[i]]
        ELSE str[i]]

\* str.find(sub): the lowest index (from 0) at which sub occurs, else -1
find(str, sub) ==
    LET at == {i \in 1..(Len(str) - Len(sub) + 1) : SubSeq(str, i, i + Len(sub) - 1) = sub}
    IN  IF at = {} THEN 0 - 1
        ELSE (CHOOSE i \in at : \A j \in at : i <= j) - 1

\* not value, for a string or None
falsy(value) == value = None \/ value = ""

uptimerobot == <<"u", "p", "t", "i", "m", "e", "r", "o", "b", "o", "t">>

\* User-Agent values: a browser's, the uptime monitor's, one that names the monitor
\* inside a longer text, one that stops short of its name
UserAgents ==
    {<<"M", "o", "z", "i", "l", "l", "a", "/", "5">>,
     <<"U", "p", "t", "i", "m", "e", "R", "o", "b", "o", "t", "/", "2">>,
     <<"x", " ", "U", "P", "T", "I", "M", "E", "R", "O", "B", "O", "T">>,
     <<"U", "p", "t", "i", "m", "e", "R", "o", "b", "o">>}

\* request.headers, with or without a User-Agent
Headers == {EmptyDict} \cup [{"User-Agent"} -> UserAgents]

\* request.args: no key, the secret, other values
Args == {EmptyDict} \cup [{"key"} -> {"asdf", "qwer", "ASDF", ""}]

\* os.environ: both variables set, the token missing, the chat id empty
Environments ==
    {[v \in {"TELEGRAM_BOT_TOKEN", "TELEGRAM_CHAT_ID"} |->
         IF v = "TELEGRAM_BOT_TOKEN" THEN "token" ELSE "42"],
     [v \in {"TELEGRAM_CHAT_ID"} |-> "42"],
     [v \in {"TELEGRAM_BOT_TOKEN", "TELEGRAM_CHAT_ID"} |->
         IF v = "TELEGRAM_BOT_TOKEN" THEN "token" ELSE ""]}

Requests == [args : Args, headers : Headers, env : Environments]

\* what requests.post() does: a response with a status code, or an exception
Posts ==
    {[raised |-> FALSE, status_code |-> 200], [raised |-> FALSE, status_code |-> 400],
     [raised |-> TRUE, status_code |-> 0]}

\* mutant: the key is not checked
main_test_alert_open(req, post) ==
    IF find(lower(Get(req.headers, "User-Agent", <<>>)), uptimerobot) # 0 - 1
    THEN [status |-> 200, posted |-> FALSE]
    ELSE IF falsy(Get(req.env, "TELEGRAM_BOT_TOKEN", None))
            \/ falsy(Get(req.env, "TELEGRAM_CHAT_ID", None))
    THEN [status |-> 500, posted |-> FALSE]
    ELSE [status |-> IF post.raised THEN 500 ELSE post.status_code, posted |-> TRUE]

\* main.py test_alert (lines 182-201); an exception of requests.post is not caught
\* and Flask answers 500
main_test_alert(req, post) ==
    IF find(lower(Get(req.headers, "User-Agent", <<>>)), uptimerobot) # 0 - 1
    THEN [status |-> 200, posted |-> FALSE]
    ELSE IF Get(req.args, "key", None) # "asdf"
    THEN [status |-> 401, posted |-> FALSE]
    ELSE IF falsy(Get(req.env, "TELEGRAM_BOT_TOKEN", None))
            \/ falsy(Get(req.env, "TELEGRAM_CHAT_ID", None))
    THEN [status |-> 500, posted |-> FALSE]
    ELSE [status |-> IF post.raised THEN 500 ELSE post.status_code, posted |-> TRUE]

\* server.py test_alert (lines 12-30); an exception of requests.post is caught and
\* answered 500
server_test_alert(req, post) ==
    IF Get(req.args, "key", None) # "asdf"
    THEN [status |-> 401, posted |-> FALSE]
    ELSE IF falsy(Get(req.env, "TELEGRAM_BOT_TOKEN", None))
            \/ falsy(Get(req.env, "TELEGRAM_CHAT_ID", None))
    THEN [status |-> 500, posted |-> FALSE]
    ELSE [status |-> IF post.raised THEN 500 ELSE post.status_code, posted |-> TRUE]

\* mutant: a handler empties the dictionary of the bot
after_request_cleared(state) == EmptyDict

\* a module global of the bot after a request: no handler assigns it
after_request(state) == state

\* GET or HEAD /: main.py home (lines 176-180), server.py home (lines 8-10)
home ==
    /\ prog \in {"main", "logic"}
    /\ \E method \in {"GET", "HEAD"} :
         http' = [route |-> "/", method |-> method, status |-> 200, posted |-> FALSE]
    /\ alert_tracker' = after_request(alert_tracker)
    /\ symbol_volumes' = after_request(symbol_volumes)
    /\ UNCHANGED <<prog, pc, idx, cycle, now, loop_counter, highs_tracker, alert_flags,
                   last, sent, run_alerts, ever_alerts, n_alerts, held, failed,
                   caseVars>>

\* GET /test-alert
test_alert_on(requests) ==
    /\ prog \in {"main", "logic"}
    /\ \E req \in requests :
       \E resp \in {IF prog = "main" THEN main_test_alert(req, post)
                    ELSE server_test_alert(req, post) : post \in Posts} :
         http' = [route |-> "/test-alert", args |-> req.args,
                  headers |-> req.headers, env |-> req.env,
                  status |-> resp.status, posted |-> resp.posted]
    /\ alert_tracker' = after_request(alert_tracker)
    /\ symbol_volumes' = after_request(symbol_volumes)
    /\ UNCHANGED <<prog, pc, idx, cycle, now, loop_counter, highs_tracker, alert_flags,
                   last, sent, run_alerts, ever_alerts, n_alerts, held, failed,
                   caseVars>>

test_alert == test_alert_on(Requests)

\* the endpoint alone
NextEndpoint == home \/ test_alert

-----------------------------------------------------------------------------
(* the process: start and restart *)

\* mutant: the state survives the restart, as if it were persisted
process_resume(state) == state

\* the state a new process starts with: module globals are re-initialised
process_start(state) == EmptyDict

\* the process is killed and started again: memory is lost, the clock goes on
Restart ==
    /\ prog \in {"main", "logic"}
    /\ cycle + 1 < MaxCycles
    /\ last.kind # "init"
    /\ alert_tracker' = process_start(alert_tracker)
    /\ symbol_volumes' = process_start(symbol_volumes)
    /\ highs_tracker' = process_start(highs_tracker)
    /\ alert_flags' = process_start(alert_flags)
    /\ loop_counter' = 0
    /\ pc' = (IF prog = "main" THEN "start" ELSE "scan") /\ idx' = 1
    /\ last' = [kind |-> "restart"] /\ sent' = {}
    /\ run_alerts' = EmptyDict
    /\ cycle' = cycle + 1
    /\ UNCHANGED <<prog, now, ever_alerts, n_alerts, held, failed, caseVars, http>>

NoCaseVars == case_tf = "15m" /\ case_ind = NoCase /\ case_data = NoData

Init ==
    /\ prog \in {"main", "logic"}
    /\ pc = (IF prog = "main" THEN "start" ELSE "scan")
    /\ symbol_volumes = EmptyDict
    /\ InitSched
    /\ NoCaseVars

Next ==
    \/ main_loop_start
    \/ scan_symbols
    \/ main_loop_sleep
    \/ logic_main_loop_pair
    \/ logic_main_loop_sleep
    \/ Restart

Spec == Init /\ [][Next]_vars

\* the snapshots drawn when the loops run next to the HTTP endpoint
HttpScanCases == {Quiet, Bullish}

HttpLogicCases == {LogicQuiet, LogicStrong}

\* the requests drawn there: with no key, and with the secret from a browser
HttpRequests ==
    {req \in Requests :
        /\ req.args \in {EmptyDict, [a \in {"key"} |-> "asdf"]}
        /\ req.headers = [h \in {"User-Agent"} |->
                             <<"M", "o", "z", "i", "l", "l", "a", "/", "5">>]
        /\ DOMAIN req.env = {"TELEGRAM_BOT_TOKEN", "TELEGRAM_CHAT_ID"}
        /\ req.env["TELEGRAM_CHAT_ID"] # ""}

\* the steps of the loops in that setting
HttpLoop ==
    \/ main_loop_start
    \/ scan_symbols_on(HttpScanCases)
    \/ main_loop_sleep
    \/ logic_main_loop_pair_on(HttpLogicCases)
    \/ logic_main_loop_sleep

\* the Flask thread serves requests at any time between the steps of the loop
NextHttp ==
    \/ main_loop_start
    \/ scan_symbols_on(HttpScanCases)
    \/ main_loop_sleep
    \/ logic_main_loop_pair_on(HttpLogicCases)
    \/ logic_main_loop_sleep
    \/ home
    \/ test_alert_on(HttpRequests)

SpecHttp == Init /\ [][NextHttp]_vars

SpecEndpoint == Init /\ [][NextEndpoint]_vars

\* the snapshots drawn in the model of the volume refresh: a quiet market, the same
\* with the last volume far above its average, and an empty fetch
RefreshCases == {Quiet, [Quiet EXCEPT !.vol_z = 25], [Quiet EXCEPT !.rows = 0]}

\* the snapshots of logic.py with a price that rises and falls
TslCases == LogicScanCases \cup {[LogicQuiet EXCEPT !.price = p] : p \in {70, 120}}

\* logic.py's loop over moving prices
NextTsl ==
    \/ logic_main_loop_pair_on(TslCases)
    \/ logic_main_loop_sleep
    \/ Restart

\* logic.py started alone
InitTsl ==
    /\ Init
    /\ prog = "logic"

SpecTsl == InitTsl /\ [][NextTsl]_vars

\* main.py's loop over many scans
NextRefresh ==
    \/ main_loop_start
    \/ scan_symbols_on(RefreshCases)
    \/ main_loop_sleep_upto(MaxScans)

\* main.py started alone
InitRefresh ==
    /\ Init
    /\ prog = "main"

SpecRefresh == InitRefresh /\ [][NextRefresh]_vars

\* the loops alone, with no restart: asyncio runs each coroutine to its next await
\* and resumes it once the awaited sleep is over
NextLoop ==
    \/ main_loop_start
    \/ scan_symbols
    \/ main_loop_sleep
    \/ logic_main_loop_pair
    \/ logic_main_loop_sleep

\* a loop that can take a step eventually takes it
SpecLive == Init /\ [][NextLoop]_vars /\ WF_vars(NextLoop)

-----------------------------------------------------------------------------
(* Claims about the scoring engine, checked under SpecScore *)

MainCase == prog = "score" /\ case_ind # NoCase /\ case_tf \in DOMAIN TIMEFRAME_CONFIG
                /\ "vol_z" \in DOMAIN case_ind

LogicCase == prog = "score" /\ case_ind # NoCase /\ "vol" \in DOMAIN case_ind

CaseConditions == Conditions(case_ind, pairs[1], case_tf, symbol_volumes)

\* C1: every confidence the scoring engine produces lies in 0..100: analyze() of
\* main.py returns 0 <= confidence <= 100 and 0 <= tp_conf <= 100 (here in
\* hundredths of percent), and logic.py's confidence is between 0 and 100.
C1_ConfidenceInRange ==
    /\ (MainCase /\ case_data.ok) =>
          /\ 0 <= case_data.confidence /\ case_data.confidence <= 10000
          /\ 0 <= case_data.tp_conf /\ case_data.tp_conf <= 10000
    /\ LogicCase =>
          /\ 0 <= case_data.confidence /\ case_data.confidence <= 100

\* C1 witness: an analysis whose raw entry score exceeds the maximum and is clamped
\* to 100 percent, and a logic.py analysis that scores the full 100.
C1_Witness ==
    \/ /\ MainCase /\ case_data.ok
       /\ raw_confidence(case_tf, CaseConditions) > get_max_confidence_score(case_tf)
       /\ case_data.confidence = 10000
    \/ /\ LogicCase /\ case_data.confidence = 100

\* every favourable entry condition holds and no penalty applies
AllFavourable(c) ==
    /\ c.htf_trend /\ c.trend /\ c.volume_spike /\ c.macd_hist_positive
    /\ c.stoch_crossover /\ c.ema_above /\ c.divergence
    /\ ~c.suppressed /\ ~c.tight_range /\ ~c.rsi_neutral

\* C5: the entry confidence is normalized by the maximum attainable score: in every
\* timeframe, when every favourable condition holds the entry score reaches
\* get_max_confidence_score(interval) and the normalized confidence is 100.
C5_MaxAttainable ==
    (MainCase /\ case_data.ok /\ AllFavourable(CaseConditions)) =>
        /\ entry_score(case_tf, CaseConditions) = get_max_confidence_score(case_tf)
        /\ case_data.confidence = 10000

\* the weight of an indicator when its condition is met, else nothing
WeightIfMet(interval, name, met) ==
    IF met THEN TIMEFRAME_CONFIG[interval].confidence_weights[name] ELSE 0

\* C6 as stated: the raw entry score is the sum of the configured weights of exactly
\* the indicators whose condition is met (a false condition adds nothing, divergence
\* adds its configured weight), and analyze() reports that sum normalized.
C6_SumOfMetWeights ==
    (MainCase /\ case_data.ok) =>
        LET c == CaseConditions
            total == WeightIfMet(case_tf, "htf_trend", c.htf_trend)
                   + WeightIfMet(case_tf, "trend", c.trend)
                   + WeightIfMet(case_tf, "volume", c.volume_spike)
                   + WeightIfMet(case_tf, "macd_hist", c.macd_hist_positive)
                   + WeightIfMet(case_tf, "stoch_crossover", c.stoch_crossover)
                   + WeightIfMet(case_tf, "ema50", c.ema_above)
                   + WeightIfMet(case_tf, "divergence", c.divergence)
        IN  /\ raw_confidence(case_tf, c) = total
            /\ case_data.confidence = Normalize(total, get_max_confidence_score(case_tf))

\* the weight of an indicator when met, a tenth of it (rounded down) when not
WeightOrTenth(interval, name, met) ==
    LET w == TIMEFRAME_CONFIG[interval].confidence_weights[name]
    IN  IF met THEN w ELSE w \div 10

\* the score analyze() is documented to build (lines 576-596)
ExpectedRaw(interval, c) ==
    LET m == get_max_confidence_score(interval)
        core == Cardinality({n \in {"htf_trend", "trend", "volume_spike",
                                    "macd_hist_positive", "stoch_crossover"} : c[n]})
    IN  IF core < 2 THEN 0
        ELSE WeightOrTenth(interval, "htf_trend", c.htf_trend)
           + WeightOrTenth(interval, "trend", c.trend)
           + WeightOrTenth(interval, "volume", c.volume_spike)
           + WeightOrTenth(interval, "macd_hist", c.macd_hist_positive)
           + WeightOrTenth(interval, "stoch_crossover", c.stoch_crossover)
           + WeightOrTenth(interval, "ema50", c.ema_above)
           + (IF c.divergence THEN Max(5, (m * 8) \div 100) ELSE 0)
           + (IF c.suppressed THEN 0 - ((m * 7) \div 100) ELSE (m * 7) \div 100)
           - (IF c.tight_range THEN (m * 6) \div 100 ELSE 0)
           - (IF c.rsi_neutral THEN (m * 5) \div 100 ELSE 0)

\* the conditions logic.py scores, with their fixed weights
LogicExpected(ind) ==
    LET met == {n \in {"vol", "trend", "open", "div", "rsi", "stoch"} :
                  CASE n = "vol" -> ind.vol
                    [] n = "trend" -> ind.trend
                    [] n = "open" -> ~ind.suppressed
                    [] n = "div" -> ind.div
                    [] n = "rsi" -> ind.rsi < 30000
                    [] n = "stoch" -> ind.stoch_k < 20000 /\ ind.stoch_d < 20000}
    IN  20 * Cardinality(met \cap {"vol", "trend"})
      + 15 * Cardinality(met \ {"vol", "trend"})

\* C6 amended: with fewer than two core signals the raw score is 0; otherwise each of
\* the six indicators adds its full weight when met and int(10%) of it when not,
\* divergence adds max(5, int(8% of the maximum)), suppression adds or subtracts
\* int(7%), a tight range subtracts int(6%), a neutral RSI int(5%); the result is
\* clamped to 0..maximum and normalized.  logic.py's confidence is the sum of the
\* fixed weights of exactly the conditions met.
C6_CreditedScore ==
    /\ (MainCase /\ case_data.ok) =>
          LET m == get_max_confidence_score(case_tf)
              e == ExpectedRaw(case_tf, CaseConditions)
              clamped == IF e < 0 THEN 0 ELSE IF e > m THEN m ELSE e
          IN  case_data.confidence = RoundDiv(clamped * 10000, m)
    /\ LogicCase => case_data.confidence = LogicExpected(case_ind)

\* C6 witness: an analysed case with at least two core signals in which some
\* indicator's condition is false and its weight is at least 10, and a logic.py case
\* with conditions met and unmet.
C6_Witness ==
    \/ /\ MainCase /\ case_data.ok
       /\ core_true(CaseConditions) >= 2
       /\ ~CaseConditions.htf_trend
       /\ CaseConditions.divergence
       /\ case_data.confidence > 0
    \/ /\ LogicCase /\ case_ind.vol /\ ~case_ind.trend /\ case_data.confidence = 35

-----------------------------------------------------------------------------
(* Claims about the schedulers, checked under Spec and SpecLive *)

\* C2: entry and take-profit alerts are gated by the per-timeframe thresholds: an
\* entry alert of scan_symbols carries a normalized confidence >= entry_threshold of
\* its timeframe, a take-profit alert a tp_conf >= tp_threshold of its timeframe.
C2_ThresholdGated ==
    prog = "main" =>
        \A a \in sent :
            /\ a.kind = "entry" =>
                  a.confidence >= TIMEFRAME_CONFIG[a.interval].entry_threshold * 100
            /\ a.kind = "tp" =>
                  a.tp_conf >= TIMEFRAME_CONFIG[a.interval].tp_threshold * 100

\* C2 witness: one scan of a pair sends both an entry and a take-profit alert.
C2_Witness ==
    prog = "main" /\ \E a, b \in sent : a.kind = "entry" /\ b.kind = "tp"

\* C3: a momentum warning is sent only if the momentum score of analyze() reaches
\* momentum_threshold of the timeframe, that is only when data['momentum_warning']
\* is true, and never for the 15m timeframe, which configures no momentum weights.
C3_MomentumGated ==
    prog = "main" =>
        \A a \in sent :
            a.kind = "momentum" =>
                /\ a.momentum_warning
                /\ "momentum_threshold" \in DOMAIN TIMEFRAME_CONFIG[a.interval]
                /\ a.momentum_score >=
                       TIMEFRAME_CONFIG[a.interval].momentum_threshold * 100
                /\ a.interval # "15m"

\* C4: within one process run, two consecutive alerts of scan_symbols for the same
\* key (symbol, interval, kind) are more than the interval's cooldown minutes apart.
C4_CooldownGated ==
    prog = "main" =>
        \A a \in sent :
            a.prev # 0 - 1 => a.at - a.prev > TIMEFRAME_CONFIG[a.interval].cooldown

\* C4 witness: an alert sent one minute after the cooldown of its key ran out.
C4_Witness ==
    prog = "main" /\ \E a \in sent :
        a.prev # 0 - 1 /\ a.at - a.prev = TIMEFRAME_CONFIG[a.interval].cooldown + 1

\* the entries of d and e outside keys are the same
SameOutside(d, e, keys) ==
    \A key \in (DOMAIN d \cup DOMAIN e) \ keys :
        key \in DOMAIN d /\ key \in DOMAIN e /\ d[key] = e[key]

\* the keys of the state entries of pair (s, i)
OwnKeys(s, i) == {s \o "_" \o i \o "_" \o k : k \in Kinds \cup LogicKinds}

\* C7: processing pair (s, i) leaves the entries of every other pair unchanged
\* (alert_tracker, alert_flags outside s_i_kind, highs_tracker outside s_i), and what
\* it sends is decided by the pair's own signals and own entries alone.
C7_PairIndependent ==
    [][last'.kind = "pair" =>
        LET s == last'.symbol
            i == last'.interval
        IN  /\ SameOutside(alert_tracker, alert_tracker', OwnKeys(s, i))
            /\ SameOutside(alert_flags, alert_flags', OwnKeys(s, i))
            /\ SameOutside(highs_tracker, highs_tracker', {s \o "_" \o i})
            /\ (prog = "main" /\ last'.ok) =>
                  \A k \in Kinds :
                      LET key == s \o "_" \o i \o "_" \o k
                      IN  (\E a \in sent' : a.kind = k) <=>
                              /\ k \in last'.signals
                              /\ \/ key \notin DOMAIN alert_tracker
                                 \/ now - alert_tracker[key] >
                                        TIMEFRAME_CONFIG[i].cooldown
            /\ (prog = "logic" /\ last'.ok) =>
                  /\ \A k \in LogicKinds :
                         LET key == s \o "_" \o i \o "_" \o k
                         IN  (\E a \in sent' : a.kind = k) <=>
                                 /\ k \in last'.signals
                                 /\ ~(key \in DOMAIN alert_flags /\ alert_flags[key])
                  /\ LET key == s \o "_" \o i
                         high == IF key \in DOMAIN highs_tracker
                                 THEN Max(highs_tracker[key], last'.price)
                                 ELSE last'.price
                     IN  "tsl" \in last'.signals <=>
                             last'.price * 100 < high * (100 - tsl_percent[i])
    ]_vars

\* C7 witness: the second pair of the scan list sends an alert while entries of the
\* first pair are stored.
C7_Witness ==
    /\ last.kind = "pair" /\ last.idx = 2 /\ sent # {}
    /\ \/ prog = "main" /\
            \E key \in DOMAIN alert_tracker :
                key \notin OwnKeys(last.symbol, last.interval)
       \/ prog = "logic" /\
            \E key \in DOMAIN alert_flags :
                alert_flags[key] /\ key \notin OwnKeys(last.symbol, last.interval)

\* C8: when the candle fetch fails or returns too few candles (empty or < 220 rows in
\* main.py, empty or < 20 rows in logic.py) no alert is sent for the pair in that scan
\* and alert_tracker, highs_tracker and alert_flags are left unchanged.
C8_SkippedPair ==
    [][(/\ last'.kind = "pair"
        /\ \/ prog = "main" /\ last'.rows < 220
           \/ prog = "logic" /\ last'.rows < 20) =>
          /\ sent' = {}
          /\ alert_tracker' = alert_tracker
          /\ highs_tracker' = highs_tracker
          /\ alert_flags' = alert_flags
    ]_vars

\* C8 witness: a pair that has stored state is skipped for a short or empty fetch.
C8_Witness ==
    /\ last.kind = "pair"
    /\ \/ /\ prog = "main" /\ last.rows < 220
          /\ (last.symbol \o "_" \o last.interval \o "_entry") \in DOMAIN alert_tracker
       \/ /\ prog = "logic" /\ last.rows < 20
          /\ (last.symbol \o "_" \o last.interval) \in DOMAIN highs_tracker
          /\ (last.symbol \o "_" \o last.interval \o "_entry") \in DOMAIN alert_flags

\* C9: the scheduler loops over every pair of every cycle.  A step that processes a
\* pair, failed or not, is followed by the next pair of the same cycle, and the last
\* pair by the sleep; the sleep lasts the fixed interval and starts the next cycle;
\* and the loop always gets as far as the end of the last cycle the model allows, so
\* that every cycle eventually starts and every pair of it is eventually processed.
C9_LoopContinues ==
    /\ [][/\ (pc = "scan" /\ idx < MaxPairs) =>
                (/\ last'.kind = "pair" /\ last'.idx = idx
                 /\ pc' = "scan" /\ idx' = idx + 1 /\ cycle' = cycle)
          /\ (pc = "scan" /\ idx = MaxPairs) =>
                (/\ last'.kind = "pair" /\ last'.idx = idx
                 /\ pc' = "sleep" /\ cycle' = cycle)
          /\ pc = "sleep" =>
                (/\ pc' = "scan" /\ idx' = 1 /\ cycle' = cycle + 1
                 /\ now' >= now + (IF prog = "main" THEN 30 ELSE 10))]_vars
    /\ <>(cycle = MaxCycles - 1 /\ pc = "sleep")

\* C9 witness: the processing of a pair has failed, and the loop has gone on to
\* process the last pair of the following cycle.
C9_Witness ==
    /\ failed /\ cycle = 1
    /\ last.kind = "pair" /\ last.idx = MaxPairs /\ last.ok

\* C10: a restart empties alert_tracker, alert_flags and highs_tracker, and the first
\* scan of a run in which a signal of a pair is true sends the alert, whatever was
\* sent before the restart.
C10_RestartForgets ==
    [][/\ last'.kind = "restart" =>
             /\ alert_tracker' = EmptyDict
             /\ alert_flags' = EmptyDict
             /\ highs_tracker' = EmptyDict
       /\ (last'.kind = "pair" /\ last'.ok) =>
             \A k \in last'.signals :
                 (last'.symbol \o "_" \o last'.interval \o "_" \o k)
                         \notin DOMAIN run_alerts
                     => \E a \in sent' : a.kind = k
    ]_vars

\* C10 witness: after a restart an alert is sent again for a key, in main.py less than
\* the cooldown after the alert before the restart, in logic.py while the condition
\* has held at every evaluation since that alert.
C10_Witness ==
    \E a \in sent :
        /\ a.prev = 0 - 1 /\ a.before # 0 - 1
        /\ \/ prog = "main" /\ a.at - a.before <= TIMEFRAME_CONFIG[a.interval].cooldown
           \/ prog = "logic" /\ a.held

\* C11: in logic.py the high of a pair trails the highest price: a scan that
\* completes leaves highs_tracker[pair] at the larger of the price and the high
\* recorded before (the price itself at the first scan of the process), so the
\* high is the maximum of the prices seen since the process started and never
\* decreases; the level of that scan is the high times (1 - tsl_percent), strictly
\* below the high; tsl_hit is true exactly when the price is below the level; and
\* a scan that is skipped or fails leaves every high as it was.
C11_TslTrailsHigh ==
    [][(prog = "logic" /\ last'.kind = "pair") =>
          LET key == last'.symbol \o "_" \o last'.interval
              pct == CASE last'.interval = "15m" -> 21
                       [] last'.interval = "1h" -> 25
                       [] last'.interval = "1d" -> 35
          IN  IF last'.ok
              THEN /\ key \in DOMAIN highs_tracker'
                   /\ highs_tracker'[key] =
                         (IF key \in DOMAIN highs_tracker
                             /\ highs_tracker[key] > last'.price
                          THEN highs_tracker[key] ELSE last'.price)
                   /\ \A k \in DOMAIN highs_tracker :
                         k # key => highs_tracker'[k] = highs_tracker[k]
                   /\ DOMAIN highs_tracker' = DOMAIN highs_tracker \cup {key}
                   /\ last'.tsl_level100 = highs_tracker'[key] * (100 - pct)
                   /\ last'.tsl_level100 < highs_tracker'[key] * 100
                   /\ ("tsl" \in last'.signals)
                         <=> (last'.price * 100 < last'.tsl_level100)
              ELSE highs_tracker' = highs_tracker]_vars

\* C11 witness: the price has fallen below the level after a higher price was seen,
\* and the high of the pair stays above the price.
C11_Witness ==
    /\ prog = "logic" /\ last.kind = "pair" /\ last.ok
    /\ "tsl" \in last.signals
    /\ highs_tracker[last.symbol \o "_" \o last.interval] = 120
    /\ last.price = 70

\* C12: the HTTP endpoint does not interfere with the bot.  Every step that changes
\* anything of the bot (its dictionaries, its position, its clock, the alerts it
\* sends) is a step of the scan loop alone, whatever requests were served before,
\* so the alerts are those of a run with no requests; a request changes nothing but
\* its own response; and / answers 200 in every state.
C12_HttpDoesNotInterfere ==
    /\ [][HttpLoop]_<<prog, schedVars, caseVars>>
    /\ [][/\ alert_tracker' = alert_tracker /\ symbol_volumes' = symbol_volumes
          /\ sent' = sent /\ n_alerts' = n_alerts
          /\ http'.route = "/" => http'.status = 200]_http
    /\ [][ENABLED home]_vars

\* C12 witness: / is answered between two pairs of a scan, after the first pair has
\* sent an alert.
C12_Witness ==
    /\ http.route = "/" /\ http.status = 200
    /\ pc = "scan" /\ idx > 1
    /\ n_alerts >= 1 /\ sent # {}

Monitor == <<"U", "p", "t", "i", "m", "e", "R", "o", "b", "o", "t", "/", "2">>

MonitorShouting == <<"x", " ", "U", "P", "T", "I", "M", "E", "R", "O", "B", "O", "T">>

HttpKeyOk == "key" \in DOMAIN http.args /\ http.args["key"] = "asdf"

HttpEnvOk ==
    /\ {"TELEGRAM_BOT_TOKEN", "TELEGRAM_CHAT_ID"} \subseteq DOMAIN http.env
    /\ http.env["TELEGRAM_BOT_TOKEN"] # "" /\ http.env["TELEGRAM_CHAT_ID"] # ""

HttpMonitor ==
    /\ prog = "main"
    /\ "User-Agent" \in DOMAIN http.headers
    /\ http.headers["User-Agent"] \in {Monitor, MonitorShouting}

CoreCount ==
    (IF CaseConditions.htf_trend THEN 1 ELSE 0)
    + (IF CaseConditions.trend THEN 1 ELSE 0)
    + (IF CaseConditions.volume_spike THEN 1 ELSE 0)
    + (IF CaseConditions.macd_hist_positive THEN 1 ELSE 0)
    + (IF CaseConditions.stoch_crossover THEN 1 ELSE 0)

\* C14: with fewer than two of the five core signals analyze() returns confidence
\* 0 and entry false, on every timeframe and whatever the other conditions, and
\* the body of scan_symbols sends no entry alert for that analysis.
C14_TwoCoreSignals ==
    (MainCase /\ case_data.ok /\ CoreCount < 2) =>
        /\ case_data.confidence = 0
        /\ ~case_data.entry
        /\ "entry" \notin scan_pair(case_data, EmptyDict, 0).alerts

\* C14 witness: one core signal only, with every other condition in favour of an
\* entry (price above the EMA, divergence, no suppression, no tight range, RSI not
\* neutral), scores 0.
C14_Witness ==
    /\ MainCase /\ case_data.ok /\ CoreCount = 1
    /\ CaseConditions.ema_above /\ CaseConditions.divergence
    /\ ~CaseConditions.suppressed /\ ~CaseConditions.tight_range
    /\ ~CaseConditions.rsi_neutral
    /\ case_data.confidence = 0 /\ ~case_data.entry

\* C15: in logic.py the alerts are edge-triggered.  A scan of a pair that completes
\* leaves each of the pair's three flags equal to the condition of its kind, and
\* sends the alert of a kind exactly when the condition is true and the flag was
\* not True before; so no alert is repeated within a run of the process while its
\* condition has held at every scan since it was last sent.  A scan that is skipped
\* or fails leaves the flags as they were and sends nothing.
C15_EdgeTriggered ==
    [][(prog = "logic" /\ last'.kind = "pair") =>
          IF last'.ok
          THEN \A k \in {"entry", "tp", "tsl"} :
                 LET key == last'.symbol \o "_" \o last'.interval \o "_" \o k
                     was_set == key \in DOMAIN alert_flags /\ alert_flags[key] = TRUE
                 IN  /\ key \in DOMAIN alert_flags'
                     /\ alert_flags'[key] = (k \in last'.signals)
                     /\ (\E a \in sent' : a.key = key)
                           <=> (k \in last'.signals /\ ~was_set)
                     /\ \A a \in sent' : a.key = key => ~(a.held /\ a.prev # 0 - 1)
          ELSE alert_flags' = alert_flags /\ sent' = {}]_vars

\* C15 witness: the entry condition of a pair is true in a scan, as it was at every
\* scan since its alert was sent earlier in this run, and the scan sends no entry
\* alert.
C15_Witness ==
    /\ prog = "logic" /\ last.kind = "pair" /\ last.ok
    /\ "entry" \in last.signals
    /\ (last.symbol \o "_" \o last.interval \o "_entry") \in held
    /\ (last.symbol \o "_" \o last.interval \o "_entry") \in DOMAIN run_alerts
    /\ run_alerts[last.symbol \o "_" \o last.interval \o "_entry"] < now
    /\ \A a \in sent : a.kind # "entry"

\* C16: the 24h volumes are fetched once before the first scan and again after
\* every 8th completed scan, and at no other time: loop_counter is in 0..7 whenever
\* a pair is about to be scanned, the sleep step that follows scan number n
\* fetches exactly when n is a multiple of 8, and symbol_volumes changes in no step
\* but a fetch.
C16_RefreshEveryEighth ==
    /\ [](prog = "main" /\ pc = "scan" =>
             /\ loop_counter \in 0..7
             /\ loop_counter = cycle % 8
             /\ last.kind # "init")
    /\ [][prog = "main" =>
             /\ last'.kind = "start" => (last.kind = "init" /\ last'.refreshed)
             /\ last'.kind = "sleep" => (last'.refreshed <=> (cycle' % 8 = 0))
             /\ symbol_volumes' # symbol_volumes =>
                   (last'.kind \in {"start", "sleep"} /\ last'.refreshed)
             /\ last'.kind = "pair" => symbol_volumes' = symbol_volumes]_vars

\* C16 witness: the volumes were refreshed after the 16th scan, and the 17th scan
\* runs on the new snapshot.
C16_Witness ==
    /\ prog = "main" /\ cycle = 16 /\ loop_counter = 0
    /\ last.kind = "pair" /\ last.volume_spike

\* C17: a fetch of the 24h volumes that raises leaves symbol_volumes empty, also
\* when a snapshot was held before; and while symbol_volumes is empty no analysis
\* finds a volume spike: volume_weakening is true for every pair analysed, and the
\* volume weight is credited as unmet on every timeframe.
C17_FailedFetchNoVolume ==
    /\ [][(prog = "main" /\ last'.kind \in {"start", "sleep"} /\ last'.refreshed
              /\ last'.raised) => symbol_volumes' = EmptyDict]_vars
    /\ [](prog = "main" /\ symbol_volumes = EmptyDict =>
            /\ (last.kind = "pair" /\ last.ok) =>
                  (~last.volume_spike /\ last.volume_weakening)
            /\ \A i \in 1..Len(MainScan) : \A ind \in RefreshCases :
                 LET c == Conditions(ind, MainScan[i][1], MainScan[i][2], symbol_volumes)
                     w == TIMEFRAME_CONFIG[MainScan[i][2]].confidence_weights
                 IN  /\ ~c.volume_spike
                     /\ Credit(w, "volume", c.volume_spike) = w.volume \div 10
                     /\ Credit(w, "volume", c.volume_spike) < w.volume)

\* C17 witness: the refresh after the 8th scan raised and discarded the snapshot
\* the first eight scans ran on; the 9th scan starts with no volumes.
C17_Witness ==
    /\ prog = "main" /\ cycle = 8 /\ symbol_volumes = EmptyDict
    /\ last.kind = "sleep" /\ last.raised /\ last.had_volumes

\* C18: in scan_symbols no momentum-warning alert is sent for a pair in a scan in
\* which the take-profit signal data['tp'] of that pair is true.
C18_MomentumOnlyBeforeTp ==
    (prog = "main" /\ last.kind = "pair" /\ "tp" \in last.signals) =>
        \A a \in sent : a.kind # "momentum"

\* C19: whenever main_loop of logic.py sends an entry alert for a pair, the last
\* price of that scan is at or below the lower Bollinger band computed in that scan.
C19_EntryAtLowerBand ==
    prog = "logic" =>
        \A a \in sent : a.kind = "entry" => a.price <= a.bb_lower

====
